---- MODULE Spec2Model ----
(***************************************************************************)
(* The single-instrument matching engine of OrderEngine.cpp (class         *)
(* OrderEngine, lines 57-469) together with the PriceHeap it is built on    *)
(* (lines 512-618).  Prices and quantities are doubles in the source; the  *)
(* model uses integers, so rounding is outside it.  Orders are shared       *)
(* between the registry and the levels through shared_ptr; the model keeps *)
(* the records in OrderTable and the order ids in the levels.              *)
(***************************************************************************)
EXTENDS Integers, Sequences, FiniteSets, TLC

\* ------------------------------------------------------------- bounds
\* Number of place_order calls of one run (each call consumes an id).
MaxOrders == 3
\* ... of a run of placements only
MaxPlaced == 4
\* ... of a run of placements of one quantity
MaxDeep == 5
\* ... of a run over edge-case arguments
MaxEdge == 2

\* ---------------------------------------------------- program constants
\* PriceHeap::peek / find / pop return -1 on failure; place_order's default
\* price argument and get_best_bid/ask's "no level" answer are -1 as well.
NoPrice == -1
DefaultPrice == -1
\* PriceHeap::find's answer when the price is not in the heap.
NotFound == -1
\* The first id an engine issues (constructor, next_order_id(1)).
FirstId == 1
\* What a read through the dangling reference in matching() yields when the
\* dead deque slot no longer holds the order: a value that is no price of
\* the book.
Garbage == -999
\* The return value of a call that has not returned yet.
Pending == -2

Sides == {"BID", "ASK"}
Types == {"LIMIT", "MARKET"}
Clients == {"c1"}

\* Inputs the clients draw from.
Prices == {99, 100}
Qtys == {5, 10}
MarketPrices == {DefaultPrice}
WidePrices == {99, 100, 101}
DeepQtys == {5}
EdgeQtys == {-5, 0, 5}
EdgeMarketPrices == {DefaultPrice, 100}

VARIABLES
    AsksBook,         \* PriceHeap AsksBook.heap (min-heap array)
    BidsBook,         \* PriceHeap BidsBook.heap (max-heap array)
    AskLevels,        \* LevelMap: price -> deque of order ids
    BidLevels,        \* LevelMap: price -> deque of order ids
    OrderTable,       \* OrderMap: id -> OrderInfo
    recent_order_id,  \* the aggressor-of-record
    next_order_id,    \* id allocator
    book_updated,     \* the work-pending flag
    engine_running,
    wpc,              \* where the worker thread is
    cpc,              \* where each client thread is
    call,             \* each client's current (or last) call and its result
    events            \* what notify_open / notify_fill / notify_cancel printed

vars == <<AsksBook, BidsBook, AskLevels, BidLevels, OrderTable, recent_order_id,
          next_order_id, book_updated, engine_running, wpc, cpc, call, events>>

book == <<AsksBook, BidsBook, AskLevels, BidLevels>>

\* ----------------------------------------------------------- PriceHeap
\* heap[i] with the source's 0-based index.
At(h, i) == h[i + 1]

Swap(h, i, j) == [h EXCEPT ![i + 1] = h[j + 1], ![j + 1] = h[i + 1]]

size(h) == Len(h)

peek(h) == IF Len(h) = 0 THEN NoPrice ELSE At(h, 0)

RECURSIVE FindFrom(_, _, _)
FindFrom(h, data, i) ==
    IF i >= Len(h) THEN NotFound
    ELSE IF At(h, i) = data THEN i
    ELSE FindFrom(h, data, i + 1)

find(h, data) == IF Len(h) = 0 THEN NotFound ELSE FindFrom(h, data, 0)

RECURSIVE heapify_up(_, _, _)
heapify_up(h, min, index) ==
    IF index <= 0 THEN h
    ELSE LET parent == (index - 1) \div 2 IN
         IF (min /\ At(h, index) > At(h, parent)) \/ (~min /\ At(h, index) < At(h, parent))
         THEN h
         ELSE heapify_up(Swap(h, index, parent), min, parent)

RECURSIVE heapify_down(_, _, _)
heapify_down(h, min, index) ==
    \* index < heap.size() compares as unsigned: a negative index ends the loop
    IF index < 0 \/ index >= Len(h) THEN h
    ELSE LET left_child  == IF (index * 2) + 1 < Len(h) THEN (index * 2) + 1 ELSE index
             right_child == IF (index * 2) + 2 < Len(h) THEN (index * 2) + 2 ELSE index
             best_child  == IF (min /\ At(h, left_child) < At(h, right_child))
                               \/ (~min /\ At(h, left_child) > At(h, right_child))
                            THEN left_child ELSE right_child
         IN IF (min /\ At(h, best_child) < At(h, index))
               \/ (~min /\ At(h, best_child) > At(h, index))
            THEN heapify_down(Swap(h, best_child, index), min, best_child)
            ELSE h

push(h, min, data) == heapify_up(Append(h, data), min, Len(h))

\* pop(index): swap heap[index] with the last element, drop the last, sift
\* down from index.  With index = -1 (find() failed) heap[-1] lies outside
\* the vector: the last element is overwritten and dropped, the sift does
\* not run.
pop(h, min, index) ==
    IF Len(h) = 0 THEN h
    ELSE IF index < 0 THEN SubSeq(h, 1, Len(h) - 1)
    ELSE heapify_down(SubSeq(Swap(h, index, Len(h) - 1), 1, Len(h) - 1), min, index)

\* ------------------------------------------------------------ LevelMap
EmptyMap == [k \in {} |-> <<>>]

HasLevel(L, p) == p \in DOMAIN L

\* L[p] of an unordered_map: a missing key reads as a fresh empty level.
Level(L, p) == IF p \in DOMAIN L THEN L[p] ELSE <<>>

\* A variant of the map write that keeps only the key written.
SetLevel_Forgets(L, p, q) == [k \in {p} |-> q]

SetLevel(L, p, q) == [k \in DOMAIN L \cup {p} |-> IF k = p THEN q ELSE L[k]]

EraseLevel(L, p) == [k \in DOMAIN L \ {p} |-> L[k]]

\* A variant of the filter that leaves the level as it is.
Without_Keeps(q, id) == q

\* The level with order _id filtered out (cancel_order's new_level).
Without(q, id) == SelectSeq(q, LAMBDA x : x # id)

InSeq(q, x) == \E i \in 1..Len(q) : q[i] = x

\* ------------------------------------------------------------- events
\* One line written by notify_open, notify_fill or notify_cancel.
Event(kind, id, qty, price) == [kind |-> kind, id |-> id, qty |-> qty, price |-> price]

Min(a, b) == IF a < b THEN a ELSE b

\* The engine mutex is free: the worker sleeps in order_cv.wait (the clients'
\* critical sections are single steps, and a waiting client has released it).
MutexFree == wpc \in {"wait", "top", "exited"}

\* A client's call record: the operation, its arguments as far as the code
\* reads them (a rejected cancel or edit reads only the id), the id
\* place_order has allocated, and the value returned (Pending until then;
\* cancel_order's bool as 1 or 0).
NewCall(op, id, _side, _type, _qty, _price, ret) ==
    [op |-> op, id |-> id, side |-> _side, type |-> _type, qty |-> _qty,
     price |-> _price, local_id |-> 0, ret |-> ret]

\* ------------------------------------------------------- place_order
\* The working price of a LIMIT order (lines 113-116): peek() is -1 on an
\* empty book.
LimitPrice(_side, _price) ==
    IF _side = "ASK" /\ _price < peek(BidsBook) THEN peek(BidsBook)
    ELSE IF _side = "BID" /\ _price > peek(AsksBook) THEN peek(AsksBook)
    ELSE _price

\* The price stored in the order record (lines 117, 124-125).
OrderPrice(_side, _type, _price) ==
    IF _type = "LIMIT" THEN LimitPrice(_side, _price)
    ELSE IF _side = "ASK" THEN peek(BidsBook) ELSE peek(AsksBook)

\* The price the order is filed under (lines 138-156): the parameter _price,
\* which the LIMIT case has reassigned and the MARKET case has only shadowed
\* by a block-local of the same name.
LevelKey(_side, _type, _price) ==
    IF _type = "LIMIT" THEN LimitPrice(_side, _price) ELSE _price

\* A variant of the MARKET test that looks at the order's own side instead of
\* the opposite one.
MarketRejected_OwnSide(_side, _type) ==
    /\ _type = "MARKET"
    /\ \/ _side = "ASK" /\ size(AsksBook) = 0
       \/ _side = "BID" /\ size(BidsBook) = 0

\* Lines 99-105.
MarketRejected(_side, _type) ==
    /\ _type = "MARKET"
    /\ \/ _side = "ASK" /\ size(BidsBook) = 0
       \/ _side = "BID" /\ size(AsksBook) = 0

\* Lines 94-174 with the mutex held: the rejected call returns 0 at once,
\* the admitted one raises book_updated and waits.
PlaceSection(c, rec, _side, _type, _qty, _price) ==
    LET _id == next_order_id
        key == LevelKey(_side, _type, _price)
        new_order == [side |-> _side, type |-> _type, status |-> "OPEN", qty |-> _qty,
                      price |-> OrderPrice(_side, _type, _price)]
        heap == IF _side = "ASK" THEN AsksBook ELSE BidsBook
        levels == IF _side = "ASK" THEN AskLevels ELSE BidLevels
        fresh == find(heap, key) = NotFound
        heap1 == IF fresh THEN push(heap, _side = "ASK", key) ELSE heap
        level0 == IF fresh THEN <<>> ELSE Level(levels, key)
        levels1 == SetLevel(levels, key, Append(level0, _id))
    IN /\ next_order_id' = _id + 1
       /\ IF MarketRejected(_side, _type)
          THEN /\ call' = [call EXCEPT ![c] = [rec EXCEPT !.ret = 0]]
               /\ cpc' = [cpc EXCEPT ![c] = "idle"]
               /\ UNCHANGED <<book, OrderTable, recent_order_id, book_updated, events>>
          ELSE /\ IF _side = "ASK"
                  THEN /\ AsksBook' = heap1
                       /\ AskLevels' = levels1
                       /\ UNCHANGED <<BidsBook, BidLevels>>
                  ELSE /\ BidsBook' = heap1
                       /\ BidLevels' = levels1
                       /\ UNCHANGED <<AsksBook, AskLevels>>
               /\ OrderTable' = SetLevel(OrderTable, _id, new_order)
               /\ events' = Append(events, Event("OPEN", _id, new_order.qty, new_order.price))
               /\ recent_order_id' = _id
               /\ book_updated' = TRUE
               /\ call' = [call EXCEPT ![c] = [rec EXCEPT !.local_id = _id]]
               /\ cpc' = [cpc EXCEPT ![c] = "place_wait"]
       /\ UNCHANGED <<engine_running, wpc>>

PlaceOrder(c, _side, _type, _qty, _price) ==
    /\ cpc[c] = "idle"
    /\ MutexFree
    /\ PlaceSection(c, NewCall("place_order", 0, _side, _type, _qty, _price, Pending),
                    _side, _type, _qty, _price)

\* ------------------------------------------------------ cancel_order
\* A variant of the cancel test without the type check.
CancelRejected_NoType(_id) ==
    \/ _id \notin DOMAIN OrderTable
    \/ OrderTable[_id].status # "OPEN"

\* A variant of the cancel test without the status check.
CancelRejected_NoStatus(_id) ==
    \/ _id \notin DOMAIN OrderTable
    \/ OrderTable[_id].type # "LIMIT"

\* Lines 184-192.
CancelRejected(_id) ==
    \/ _id \notin DOMAIN OrderTable
    \/ OrderTable[_id].status # "OPEN"
    \/ OrderTable[_id].type # "LIMIT"

\* Lines 182-230 with the mutex held; `after` is where the caller goes once
\* the worker has acknowledged.
CancelSection(c, rec, _id, after) ==
    IF CancelRejected(_id)
    THEN /\ call' = [call EXCEPT ![c] = NewCall(rec.op, _id, "BID", "LIMIT", 0, 0, 0)]
         /\ cpc' = [cpc EXCEPT ![c] = "idle"]
         /\ UNCHANGED <<book, OrderTable, recent_order_id, next_order_id, book_updated,
                        engine_running, wpc, events>>
    ELSE LET order == OrderTable[_id]
             isBid == order.side = "BID"
             heap == IF isBid THEN BidsBook ELSE AsksBook
             levels == IF isBid THEN BidLevels ELSE AskLevels
             new_level == Without(Level(levels, order.price), _id)
             emptied == new_level = <<>>
             heap1 == IF emptied THEN pop(heap, ~isBid, find(heap, order.price)) ELSE heap
             levels1 == IF emptied THEN EraseLevel(levels, order.price)
                        ELSE SetLevel(levels, order.price, new_level)
         IN /\ IF isBid
               THEN /\ BidsBook' = heap1
                    /\ BidLevels' = levels1
                    /\ UNCHANGED <<AsksBook, AskLevels>>
               ELSE /\ AsksBook' = heap1
                    /\ AskLevels' = levels1
                    /\ UNCHANGED <<BidsBook, BidLevels>>
            /\ OrderTable' = [OrderTable EXCEPT ![_id].status = "CANCELLED"]
            /\ events' = Append(events, Event("CANCELED", _id, order.qty, order.price))
            /\ book_updated' = TRUE
            /\ call' = [call EXCEPT ![c] = rec]
            /\ cpc' = [cpc EXCEPT ![c] = after]
            /\ UNCHANGED <<recent_order_id, next_order_id, engine_running, wpc>>

CancelOrder(c, _id) ==
    /\ cpc[c] = "idle"
    /\ MutexFree
    /\ CancelSection(c, NewCall("cancel_order", _id, "BID", "LIMIT", 0, 0, Pending), _id, "cancel_wait")

\* -------------------------------------------------------- edit_order
\* Line 237: the cancel_order call of edit_order.
EditOrder(c, _id, _side, _qty, _price) ==
    /\ cpc[c] = "idle"
    /\ MutexFree
    /\ CancelSection(c, NewCall("edit_order", _id, _side, "LIMIT", _qty, _price, Pending), _id,
                     "edit_cancel_wait")

\* cancel_order's wait is over (line 230-231): it returns true to edit_order
\* and releases the mutex.
EditCancelReturn(c) ==
    /\ cpc[c] = "edit_cancel_wait"
    /\ ~book_updated
    /\ MutexFree
    /\ cpc' = [cpc EXCEPT ![c] = "edit_place"]
    /\ UNCHANGED <<book, OrderTable, recent_order_id, next_order_id, book_updated,
                   engine_running, wpc, call, events>>

\* A variant of the replacement that does not pass the price on.
EditPlace_DefaultPrice(c) ==
    /\ cpc[c] = "edit_place"
    /\ MutexFree
    /\ PlaceSection(c, call[c], call[c].side, "LIMIT", call[c].qty, DefaultPrice)

\* Line 239: the place_order call of edit_order.
EditPlace(c) ==
    /\ cpc[c] = "edit_place"
    /\ MutexFree
    /\ PlaceSection(c, call[c], call[c].side, "LIMIT", call[c].qty, call[c].price)

\* The wait of place_order (172-175) or cancel_order (230-231) is over.
ClientReturn(c) ==
    /\ cpc[c] \in {"place_wait", "cancel_wait"}
    /\ ~book_updated
    /\ MutexFree
    /\ call' = [call EXCEPT ![c].ret = IF cpc[c] = "place_wait" THEN call[c].local_id ELSE 1]
    /\ cpc' = [cpc EXCEPT ![c] = "idle"]
    /\ UNCHANGED <<book, OrderTable, recent_order_id, next_order_id, book_updated,
                   engine_running, wpc, events>>

\* --------------------------------------------------- matching_engine
\* Lines 313-320: the worker wakes with book_updated set and decides whether
\* to enter the match loop.
EntersLoop ==
    /\ engine_running
    /\ recent_order_id \in DOMAIN OrderTable
    /\ size(AsksBook) # 0 /\ size(BidsBook) # 0

WorkerWake ==
    /\ wpc = "wait"
    /\ book_updated
    /\ EntersLoop
    /\ wpc' = "loop"
    /\ UNCHANGED <<book, OrderTable, recent_order_id, next_order_id, book_updated,
                   engine_running, cpc, call, events>>

\* The loop condition of line 324.
LoopCondition ==
    /\ OrderTable[recent_order_id].status = "OPEN"
    /\ OrderTable[recent_order_id].qty # 0

\* Lines 327-337: both best levels exist and hold an order.
BestLevelsFound ==
    /\ HasLevel(AskLevels, peek(AsksBook))
    /\ HasLevel(BidLevels, peek(BidsBook))
    /\ AskLevels[peek(AsksBook)] # <<>>
    /\ BidLevels[peek(BidsBook)] # <<>>

\* Lines 340-341: the heads of the two best levels.
BestAsk == Head(AskLevels[peek(AsksBook)])
BestBid == Head(BidLevels[peek(BidsBook)])

\* Lines 344-349.
CanTrade ==
    LET recent_order == OrderTable[recent_order_id] IN
    \/ recent_order.side = "ASK" /\ OrderTable[BestBid].price >= recent_order.price
    \/ recent_order.side = "BID" /\ OrderTable[BestAsk].price <= recent_order.price

Matches == LoopCondition /\ BestLevelsFound /\ CanTrade

\* notify_fill's effect on one record (lines 438-439).
Filled(o) == IF o.qty = 0 THEN [o EXCEPT !.status = "FILLED"] ELSE o

FillKind(o) == IF o.qty = 0 THEN "FILLED" ELSE "PARTIALLY FILLED"

\* What erase(best->price) reads in matching() after pop_front.  For the
\* aggressor `best` is the worker's own shared_ptr; for the resting order it
\* is a reference to the deque slot pop_front has just destroyed, and the
\* read yields the order's price or, when `stale`, something else.
ErasedKey(id, stale) ==
    IF id = recent_order_id \/ ~stale THEN OrderTable[id].price ELSE Garbage

\* One side of matching() (lines 386-395 for asks, 398-407 for bids): when the
\* order passed for this side is exhausted, the head of the side's best level
\* is dropped, and an emptied level is popped from the heap and erased from
\* the map under the key read from the order.
SideAfter(heap, levels, min, exhausted, key) ==
    LET best == peek(heap)
        rest == Tail(levels[best])
    IN IF ~exhausted THEN <<heap, levels>>
       ELSE IF rest # <<>> THEN <<heap, SetLevel(levels, best, rest)>>
       ELSE <<pop(heap, min, 0), EraseLevel(SetLevel(levels, best, rest), key)>>

\* A variant of matching() that takes the fill off the ask only.
matching_BidKept(ask, bid, stale) ==
    LET qty_filled == Min(OrderTable[ask].qty, OrderTable[bid].qty)
        a1 == Filled([OrderTable[ask] EXCEPT !.qty = @ - qty_filled])
        b1 == Filled(OrderTable[bid])
        asks == SideAfter(AsksBook, AskLevels, TRUE, a1.qty = 0, ErasedKey(ask, stale))
        bids == SideAfter(BidsBook, BidLevels, FALSE, b1.qty = 0, ErasedKey(bid, stale))
    IN /\ OrderTable' = [OrderTable EXCEPT ![ask] = a1, ![bid] = b1]
       /\ events' = events \o <<Event(FillKind(a1), ask, qty_filled, a1.price),
                                Event(FillKind(b1), bid, qty_filled, b1.price)>>
       /\ AsksBook' = asks[1]
       /\ AskLevels' = asks[2]
       /\ BidsBook' = bids[1]
       /\ BidLevels' = bids[2]

\* matching(best_ask, best_bid, ...) of lines 375-408, called with the
\* aggressor in place of the head of its own side (lines 351-364).
matching(ask, bid, stale) ==
    LET qty_filled == Min(OrderTable[ask].qty, OrderTable[bid].qty)
        a1 == Filled([OrderTable[ask] EXCEPT !.qty = @ - qty_filled])
        b1 == Filled([OrderTable[bid] EXCEPT !.qty = @ - qty_filled])
        asks == SideAfter(AsksBook, AskLevels, TRUE, a1.qty = 0, ErasedKey(ask, stale))
        bids == SideAfter(BidsBook, BidLevels, FALSE, b1.qty = 0, ErasedKey(bid, stale))
    IN /\ OrderTable' = [OrderTable EXCEPT ![ask] = a1, ![bid] = b1]
       /\ events' = events \o <<Event(FillKind(a1), ask, qty_filled, a1.price),
                                Event(FillKind(b1), bid, qty_filled, b1.price)>>
       /\ AsksBook' = asks[1]
       /\ AskLevels' = asks[2]
       /\ BidsBook' = bids[1]
       /\ BidLevels' = bids[2]

\* One iteration of the while loop of lines 324-365 that reaches matching().
MatchStep(stale) ==
    /\ wpc = "loop"
    /\ Matches
    /\ IF OrderTable[recent_order_id].side = "ASK"
       THEN matching(recent_order_id, BestBid, stale)
       ELSE matching(BestAsk, recent_order_id, stale)
    /\ UNCHANGED <<recent_order_id, next_order_id, book_updated, engine_running, wpc,
                   cpc, call>>

\* A variant of the acknowledgement that leaves book_updated raised.
WorkerAck_NoClear ==
    /\ \/ wpc = "wait" /\ book_updated /\ ~EntersLoop
       \/ wpc = "loop" /\ ~Matches
    /\ wpc' = "wait"
    /\ UNCHANGED <<book, OrderTable, recent_order_id, next_order_id, book_updated,
                   engine_running, cpc, call, events>>

\* Lines 369-370: the loop was not entered, or it ended or broke; the worker
\* clears book_updated, notifies and goes back to its wait.
WorkerAck ==
    /\ \/ wpc = "wait" /\ book_updated /\ ~EntersLoop
       \/ wpc = "loop" /\ ~Matches
    /\ book_updated' = FALSE
    /\ wpc' = "wait"
    /\ UNCHANGED <<book, OrderTable, recent_order_id, next_order_id, engine_running,
                   cpc, call, events>>

Worker == WorkerWake \/ (\E stale \in BOOLEAN : MatchStep(stale)) \/ WorkerAck

\* ---------------------------------------------------------------- Init
NoCall == NewCall("none", 0, "BID", "LIMIT", 0, 0, Pending)

Init ==
    /\ AsksBook = <<>>
    /\ BidsBook = <<>>
    /\ AskLevels = EmptyMap
    /\ BidLevels = EmptyMap
    /\ OrderTable = EmptyMap
    /\ recent_order_id = 0
    /\ next_order_id = FirstId
    /\ book_updated = FALSE
    /\ engine_running = TRUE
    /\ wpc = "wait"
    /\ cpc = [c \in Clients |-> "idle"]
    /\ call = [c \in Clients |-> NoCall]
    /\ events = <<>>
\* ---------------------------------------------------------------- Next
\* The calls a client program issues, over the argument sets it draws from:
\* Q quantities, P limit prices, MP price arguments of MARKET orders, Ids the
\* ids it names, N the number of place_order calls of the run.
Places(N, Q, P, MP) ==
    \E c \in Clients, s \in Sides, t \in Types, q \in Q :
        \E p \in IF t = "LIMIT" THEN P ELSE MP :
            /\ next_order_id <= N
            /\ PlaceOrder(c, s, t, q, p)

Cancels(Ids) == \E c \in Clients, id \in Ids : CancelOrder(c, id)

\* (A rejected edit reads none of its order arguments: one choice of them
\* stands for all.)
Edits(N, Ids, Q, P) ==
    \E c \in Clients, id \in Ids :
        /\ next_order_id <= N
        /\ \E s \in IF CancelRejected(id) THEN {"BID"} ELSE Sides :
           \E q \in IF CancelRejected(id) THEN {0} ELSE Q :
           \E p \in IF CancelRejected(id) THEN {0} ELSE P :
               EditOrder(c, id, s, q, p)

Returns == \E c \in Clients : ClientReturn(c)

EditReturns == \E c \in Clients : EditCancelReturn(c) \/ EditPlace(c)

\* The ids a client names: 0, which is never issued, and every id place_order
\* has consumed so far, admitted or not.
NamedIds == 0..(next_order_id - 1)

\* Ordinary client traffic: positive quantities, MARKET orders placed with
\* the default price argument.
Next ==
    \/ Places(MaxOrders, Qtys, Prices, MarketPrices)
    \/ Cancels(NamedIds)
    \/ Edits(MaxOrders, NamedIds, Qtys, Prices)
    \/ Returns
    \/ EditReturns
    \/ Worker

Spec == Init /\ [][Next]_vars

\* Ordinary client traffic with a worker thread that keeps running: its
\* wait returns once book_updated is raised, and nothing in its loop blocks
\* (lines 309-371).
FairSpec == Init /\ [][Next]_vars /\ WF_vars(Worker)

\* Placements only (no cancel, no edit), LIMIT and MARKET, over three
\* prices.
NextPlace ==
    \/ Places(MaxPlaced, Qtys, WidePrices, MarketPrices)
    \/ Returns
    \/ Worker

SpecPlace == Init /\ [][NextPlace]_vars

\* Longer runs of placements of one quantity over two prices.
NextDeep ==
    \/ Places(MaxDeep, DeepQtys, Prices, MarketPrices)
    \/ Returns
    \/ Worker

SpecDeep == Init /\ [][NextDeep]_vars

\* Short runs over arguments the interface does not exclude: quantities
\* that are zero or negative, MARKET orders with an explicit price argument.
NextEdge ==
    \/ Places(MaxEdge, EdgeQtys, Prices, EdgeMarketPrices)
    \/ Cancels(NamedIds)
    \/ Edits(MaxEdge, NamedIds, EdgeQtys, Prices)
    \/ Returns
    \/ EditReturns
    \/ Worker

SpecEdge == Init /\ [][NextEdge]_vars

\* The walk-through of the demonstration driver: four LIMIT placements in
\* this order, BID 10 @ 100, ASK 5 @ 99, ASK 5 @ 100, BID 5 @ 101. Every
\* placement consumes one id, so the id counter is the position in the script.
Scenario ==
    <<[side |-> "BID", qty |-> 10, price |-> 100],
      [side |-> "ASK", qty |-> 5, price |-> 99],
      [side |-> "ASK", qty |-> 5, price |-> 100],
      [side |-> "BID", qty |-> 5, price |-> 101]>>

ScenarioPlace ==
    \E c \in Clients :
        /\ next_order_id <= Len(Scenario)
        /\ PlaceOrder(c, Scenario[next_order_id].side, "LIMIT",
                      Scenario[next_order_id].qty, Scenario[next_order_id].price)

\* The walk-through, with cancellations of any id free to fall in between.
NextScenario ==
    \/ ScenarioPlace
    \/ Cancels(NamedIds)
    \/ Returns
    \/ Worker

SpecScenario == Init /\ [][NextScenario]_vars

\* ------------------------------------------------------- two clients
\* Two client threads share one engine.  A client that waits in order_cv.wait
\* has released the mutex, so another client can take it before the worker
\* does.
MaxTwo == 2
Threads == {"c1", "c2"}
TwoQtys == {5}

\* The return value of a placement the worker has processed as the
\* aggressor-of-record but that has not returned yet.
Served == -3

\* A variant of the constructor whose id counter starts at 0.
InitTwo_FromZero ==
    /\ AsksBook = <<>>
    /\ BidsBook = <<>>
    /\ AskLevels = EmptyMap
    /\ BidLevels = EmptyMap
    /\ OrderTable = EmptyMap
    /\ recent_order_id = 0
    /\ next_order_id = 0
    /\ book_updated = FALSE
    /\ engine_running = TRUE
    /\ wpc = "wait"
    /\ cpc = [c \in Threads |-> "idle"]
    /\ call = [c \in Threads |-> NoCall]
    /\ events = <<>>

InitTwo ==
    /\ AsksBook = <<>>
    /\ BidsBook = <<>>
    /\ AskLevels = EmptyMap
    /\ BidLevels = EmptyMap
    /\ OrderTable = EmptyMap
    /\ recent_order_id = 0
    /\ next_order_id = FirstId
    /\ book_updated = FALSE
    /\ engine_running = TRUE
    /\ wpc = "wait"
    /\ cpc = [c \in Threads |-> "idle"]
    /\ call = [c \in Threads |-> NoCall]
    /\ events = <<>>

\* Lines 369-370 as WorkerAck, recording for every waiting placement whose
\* order the worker read as recent_order_id (line 317) that it has had its
\* pass.
\* A variant of the acknowledgement that leaves book_updated set.
WorkerAckTwo_NoClear ==
    /\ \/ wpc = "wait" /\ book_updated /\ ~EntersLoop
       \/ wpc = "loop" /\ ~Matches
    /\ wpc' = "wait"
    /\ UNCHANGED <<book, OrderTable, recent_order_id, next_order_id, book_updated,
                   engine_running, cpc, call, events>>

WorkerAckTwo ==
    /\ \/ wpc = "wait" /\ book_updated /\ ~EntersLoop
       \/ wpc = "loop" /\ ~Matches
    /\ book_updated' = FALSE
    /\ wpc' = "wait"
    /\ call' = [c \in Threads |->
                  IF cpc[c] = "place_wait" /\ call[c].local_id = recent_order_id
                  THEN [call[c] EXCEPT !.ret = Served] ELSE call[c]]
    /\ UNCHANGED <<book, OrderTable, recent_order_id, next_order_id, engine_running,
                   cpc, events>>

WorkerTwo == WorkerWake \/ (\E stale \in BOOLEAN : MatchStep(stale)) \/ WorkerAckTwo

PlacesTwo ==
    \E c \in Threads, s \in Sides, t \in Types, q \in TwoQtys :
        \E p \in IF t = "LIMIT" THEN Prices ELSE MarketPrices :
            /\ next_order_id <= MaxTwo
            /\ PlaceOrder(c, s, t, q, p)

CancelsTwo == \E c \in Threads, id \in NamedIds : CancelOrder(c, id)

ReturnsTwo == \E c \in Threads : ClientReturn(c)

NextTwo ==
    \/ PlacesTwo
    \/ CancelsTwo
    \/ ReturnsTwo
    \/ WorkerTwo

SpecTwo == InitTwo /\ [][NextTwo]_vars

\* Placements at one limit price, and cancels: long enough for a level to
\* hold MARKET orders behind LIMIT orders.
MaxCancel == 5
CancelPrices == {99}

NextCancel ==
    \/ Places(MaxCancel, DeepQtys, CancelPrices, MarketPrices)
    \/ Cancels(NamedIds)
    \/ Returns
    \/ Worker

SpecCancel == Init /\ [][NextCancel]_vars

\* Placements of positive and negative quantities at one limit price.
MaxSigned == 4
SignedQtys == {-5, 5}

NextSigned ==
    \/ Places(MaxSigned, SignedQtys, CancelPrices, MarketPrices)
    \/ Returns
    \/ Worker

SpecSigned == Init /\ [][NextSigned]_vars

\* Two threads that issue LIMIT placements only.
MaxLimit == 3

LimitPlacesTwo ==
    \E c \in Threads, s \in Sides, q \in TwoQtys, p \in Prices :
        /\ next_order_id <= MaxLimit
        /\ PlaceOrder(c, s, "LIMIT", q, p)

NextTwoLimit == LimitPlacesTwo \/ ReturnsTwo \/ WorkerTwo

SpecTwoLimit == InitTwo /\ [][NextTwoLimit]_vars

\* The same engine under fair scheduling: the worker thread keeps running
\* (307-372) and a client whose wait predicate holds is eventually resumed.
FairSpecTwo ==
    /\ InitTwo
    /\ [][NextTwo]_vars
    /\ WF_vars(WorkerTwo)
    /\ \A c \in Threads : WF_vars(ClientReturn(c))

\* ------------------------------------------------------------ shutdown
\* The worker followed from the creation of its thread to its exit, with the
\* test of line 309 as a step of its own: wpc is "top" when the worker is
\* about to evaluate engine_running.load() (thread just created, or between
\* two iterations) and "exited" when matching_engine has returned.
\* The owner's position in ~OrderEngine is kept in cpc: "destroy_wait" in
\* order_cv.wait(lock) of line 85, "destroy_join" at lines 86-87, "destroyed"
\* when the destructor has returned.
MaxBefore == 2

InitShutdown ==
    /\ AsksBook = <<>>
    /\ BidsBook = <<>>
    /\ AskLevels = EmptyMap
    /\ BidLevels = EmptyMap
    /\ OrderTable = EmptyMap
    /\ recent_order_id = 0
    /\ next_order_id = FirstId
    /\ book_updated = FALSE
    /\ engine_running = TRUE
    /\ wpc = "top"
    /\ cpc = [c \in Clients |-> "idle"]
    /\ call = [c \in Clients |-> NoCall]
    /\ events = <<>>

\* Line 309, then 312-315 when the flag was read true: the worker takes the
\* mutex and sleeps in its wait; read false, it leaves matching_engine.
WorkerTop ==
    /\ wpc = "top"
    /\ wpc' = IF engine_running THEN "wait" ELSE "exited"
    /\ UNCHANGED <<book, OrderTable, recent_order_id, next_order_id, book_updated,
                   engine_running, cpc, call, events>>

\* Lines 369-371: book_updated = false, notify_all (which releases a
\* destructor sleeping in line 85), end of the iteration.
WorkerAckTop ==
    /\ \/ wpc = "wait" /\ book_updated /\ ~EntersLoop
       \/ wpc = "loop" /\ ~Matches
    /\ book_updated' = FALSE
    /\ wpc' = "top"
    /\ cpc' = [c \in Clients |-> IF cpc[c] = "destroy_wait" THEN "destroy_join" ELSE cpc[c]]
    /\ UNCHANGED <<book, OrderTable, recent_order_id, next_order_id, engine_running,
                   call, events>>

WorkerShutdown ==
    WorkerTop \/ WorkerWake \/ (\E stale \in BOOLEAN : MatchStep(stale)) \/ WorkerAckTop

\* Lines 81-85 of ~OrderEngine, with no client call in progress.
Destructor(c) ==
    /\ \A d \in Clients : cpc[d] = "idle"
    /\ MutexFree
    /\ engine_running' = FALSE
    /\ book_updated' = TRUE
    /\ cpc' = [cpc EXCEPT ![c] = "destroy_wait"]
    /\ UNCHANGED <<book, OrderTable, recent_order_id, next_order_id, wpc, call, events>>

\* order_cv.wait(lock) of line 85 has no predicate: it may also return
\* without a notification.
DestructorSpurious(c) ==
    /\ cpc[c] = "destroy_wait"
    /\ MutexFree
    /\ cpc' = [cpc EXCEPT ![c] = "destroy_join"]
    /\ UNCHANGED <<book, OrderTable, recent_order_id, next_order_id, book_updated,
                   engine_running, wpc, call, events>>

\* Lines 86-87: engine.join() returns once the worker has exited.
DestructorJoin(c) ==
    /\ cpc[c] = "destroy_join"
    /\ wpc = "exited"
    /\ cpc' = [cpc EXCEPT ![c] = "destroyed"]
    /\ UNCHANGED <<book, OrderTable, recent_order_id, next_order_id, book_updated,
                   engine_running, wpc, call, events>>

Destroys == \E c \in Clients : Destructor(c)

SpuriousWakes == \E c \in Clients : DestructorSpurious(c)

Joins == \E c \in Clients : DestructorJoin(c)

NextShutdown ==
    \/ Places(MaxBefore, Qtys, Prices, MarketPrices)
    \/ Cancels(NamedIds)
    \/ Returns
    \/ WorkerShutdown
    \/ Destroys
    \/ SpuriousWakes
    \/ Joins

\* The worker thread and the owner thread are scheduled fairly; a wait
\* without predicate is not owed a spurious wake-up.
SpecShutdown ==
    /\ InitShutdown
    /\ [][NextShutdown]_vars
    /\ WF_vars(WorkerShutdown)
    /\ WF_vars(Returns)
    /\ WF_vars(Joins)

\* ----------------------------------------------------- PriceHeap alone
\* The two heaps driven through their public operations only, one heap at a
\* time: push of a price not yet stored, pop() and pop(find(p)) of a stored
\* price.  The operation just made is kept in the call record.
MaxHeap == 6

HeapValues == 1..MaxHeap

HeapOf(_side) == IF _side = "ASK" THEN AsksBook ELSE BidsBook

Stored(h) == {h[i] : i \in 1..Len(h)}

\* The heap of _side becomes h1 by operation op on price p.
HeapOp(_side, op, p, h1) ==
    /\ HeapOf(IF _side = "ASK" THEN "BID" ELSE "ASK") = <<>>
    /\ IF _side = "ASK"
       THEN AsksBook' = h1 /\ UNCHANGED BidsBook
       ELSE BidsBook' = h1 /\ UNCHANGED AsksBook
    /\ call' = [c \in Clients |-> NewCall(op, 0, _side, "LIMIT", 0, p, Pending)]
    /\ UNCHANGED <<AskLevels, BidLevels, OrderTable, recent_order_id, next_order_id,
                   book_updated, engine_running, wpc, cpc, events>>

HeapPush(_side, p) ==
    /\ p \notin Stored(HeapOf(_side))
    /\ HeapOp(_side, "push", p, push(HeapOf(_side), _side = "ASK", p))

HeapPopBest(_side) ==
    /\ size(HeapOf(_side)) # 0
    /\ HeapOp(_side, "pop", peek(HeapOf(_side)), pop(HeapOf(_side), _side = "ASK", 0))

HeapRemove(_side, p) ==
    /\ p \in Stored(HeapOf(_side))
    /\ HeapOp(_side, "remove", p,
              pop(HeapOf(_side), _side = "ASK", find(HeapOf(_side), p)))

Pushes == \E _side \in Sides, p \in HeapValues : HeapPush(_side, p)

Pops == \E _side \in Sides : HeapPopBest(_side)

Removes == \E _side \in Sides, p \in HeapValues : HeapRemove(_side, p)

NextHeap == Pushes \/ Pops \/ Removes

SpecHeap == Init /\ [][NextHeap]_vars

\* ------------------------------------------------------------ getters
\* Lines 260-271.
get_best_ask == IF size(AsksBook) = 0 THEN NoPrice ELSE peek(AsksBook)
get_best_bid == IF size(BidsBook) = 0 THEN NoPrice ELSE peek(BidsBook)

\* Lines 243-249: the record found in the registry, or nullptr.
nullptr == <<>>

get_order(_id) == IF _id \notin DOMAIN OrderTable THEN nullptr ELSE OrderTable[_id]

\* The seed handed to OrderEngine(double _starting_price, bool _verbose).
starting_price == 100

\* A double that is a whole number, and half of a whole number, as num/den in
\* lowest terms.
Whole(n) == [num |-> n, den |-> 1]
Half(n) == IF n % 2 = 0 THEN [num |-> n \div 2, den |-> 1] ELSE [num |-> n, den |-> 2]

get_price ==
    IF ~(size(AsksBook) # 0 \/ size(BidsBook) # 0)
    THEN Whole(starting_price)
    ELSE Half(peek(AsksBook) + peek(BidsBook))

\* Lines 273-280: the orders of the registry with the given status.
get_orders_by_status(status) == {id \in DOMAIN OrderTable : OrderTable[id].status = status}

\* ------------------------------------------------------------ readers
\* The const getters of lines 243-280 take no lock: a thread may call one
\* whatever the worker is doing.  A read made while the worker is inside its
\* loop races with the worker's writes and yields the value of the state or,
\* when `torn`, something else.
Getters == {"get_order", "get_price", "get_best_ask", "get_best_bid", "get_orders_by_status"}

Statuses == {"OPEN", "FILLED", "CANCELLED"}

ReadBy(g, _id, status) ==
    CASE g = "get_order" -> get_order(_id)
      [] g = "get_price" -> get_price
      [] g = "get_best_ask" -> get_best_ask
      [] g = "get_best_bid" -> get_best_bid
      [] g = "get_orders_by_status" -> get_orders_by_status(status)

Get(c, g, _id, status, torn) ==
    /\ cpc[c] = "idle"
    /\ call' = [call EXCEPT ![c] =
                  NewCall(g, _id, "BID", "LIMIT", 0, 0,
                          IF torn /\ ~MutexFree THEN Garbage ELSE ReadBy(g, _id, status))]
    /\ UNCHANGED <<book, OrderTable, recent_order_id, next_order_id, book_updated,
                   engine_running, wpc, cpc, events>>

Gets ==
    \E c \in Threads, g \in Getters, torn \in BOOLEAN :
        \E _id \in IF g = "get_order" THEN NamedIds ELSE {0} :
            \E status \in IF g = "get_orders_by_status" THEN Statuses ELSE {"OPEN"} :
                Get(c, g, _id, status, torn)

NextRead == NextTwo \/ Gets

SpecRead == InitTwo /\ [][NextRead]_vars

\* No client call is in progress and the worker sleeps with nothing pending.
Quiescent ==
    /\ wpc = "wait"
    /\ ~book_updated
    /\ \A c \in Clients : cpc[c] = "idle"

\* The orders held in the levels of a side, and where.
Resting(levels) == {id \in DOMAIN OrderTable : \E p \in DOMAIN levels : InSeq(levels[p], id)}

InBook(id) == id \in Resting(AskLevels) \cup Resting(BidLevels)

\* The two fill events a match step has just written (ask side first), and
\* whether the step from this state to the next is a match step at all.
IsMatchStep == wpc = "loop" /\ Len(events') = Len(events) + 2
AskFill == events'[Len(events) + 1]
BidFill == events'[Len(events) + 2]

IsFill(e) == e.kind \in {"FILLED", "PARTIALLY FILLED"}

RECURSIVE SumFills(_, _)
SumFills(side, n) ==
    IF n = 0 THEN 0
    ELSE SumFills(side, n - 1)
         + (IF IsFill(events[n]) /\ OrderTable[events[n].id].side = side
            THEN events[n].qty ELSE 0)

\* ---------------------------------------------------------------- C1
\* C1: in every quiescent state in which both sides hold a price level,
\* get_best_bid() < get_best_ask().
C1_CrossingInvariant ==
    (Quiescent /\ size(AsksBook) # 0 /\ size(BidsBook) # 0)
        => get_best_bid < get_best_ask

\* ---------------------------------------------------------------- C2
\* Arrival order within a level, and the pairs of orders time priority ranks.
LevelsInArrivalOrder ==
    \A levels \in {AskLevels, BidLevels} : \A p \in DOMAIN levels :
        \A i, j \in 1..Len(levels[p]) : i < j => levels[p][i] < levels[p][j]

SamePriceLimits(t1, t2) ==
    /\ t1 < t2
    /\ OrderTable[t1].type = "LIMIT" /\ OrderTable[t2].type = "LIMIT"
    /\ OrderTable[t1].side = OrderTable[t2].side
    /\ OrderTable[t1].price = OrderTable[t2].price

RestingPartyIsHead ==
    LET resting == IF AskFill.id = recent_order_id THEN BidFill.id ELSE AskFill.id
    IN \E levels \in {AskLevels, BidLevels} : \E p \in DOMAIN levels :
           levels[p] # <<>> /\ Head(levels[p]) = resting

\* C2: every level lists its orders by increasing id; the resting party of a
\* match step is the head of its level; and a LIMIT order t2 takes part in no
\* match step while a LIMIT order t1 < t2 of the same side and price is OPEN.
C2_TimePriority ==
    /\ [](LevelsInArrivalOrder)
    /\ [][IsMatchStep =>
            /\ RestingPartyIsHead
            /\ \A t1, t2 \in DOMAIN OrderTable :
                   (SamePriceLimits(t1, t2) /\ OrderTable[t1].status = "OPEN")
                       => t2 \notin {AskFill.id, BidFill.id}]_vars

\* ---------------------------------------------------------------- C3
\* The best non-empty level of a side and the order that should trade from it.
NonEmptyKeys(levels) == {p \in DOMAIN levels : levels[p] # <<>>}

BestKey(levels, min) ==
    CHOOSE p \in NonEmptyKeys(levels) :
        \A r \in NonEmptyKeys(levels) : IF min THEN p <= r ELSE p >= r

OppositeIsBest(agg, opp, levels, min) ==
    /\ agg = recent_order_id
    /\ NonEmptyKeys(levels) # {}
    /\ opp = Head(levels[BestKey(levels, min)])
    /\ \A o \in Resting(levels) :
           OrderTable[o].status = "OPEN" =>
               IF min THEN OrderTable[opp].price <= OrderTable[o].price
                      ELSE OrderTable[opp].price >= OrderTable[o].price

\* C3: in every match step one party is the aggressor-of-record and the other
\* is the head of the opposite side's best level (lowest ask price, highest
\* bid price, among the non-empty levels), and no OPEN order resting on the
\* opposite side has a better working price than that party.
C3_PricePriority ==
    [][IsMatchStep =>
          IF OrderTable[recent_order_id].side = "BID"
          THEN OppositeIsBest(BidFill.id, AskFill.id, AskLevels, TRUE)
          ELSE OppositeIsBest(AskFill.id, BidFill.id, BidLevels, FALSE)]_vars

\* ---------------------------------------------------------------- C4
\* What one match step does to the two orders it names.
C4_StepConserves ==
    LET a == AskFill.id
        b == BidFill.id
    IN /\ OrderTable[a].side = "ASK" /\ OrderTable[b].side = "BID"
       /\ AskFill.qty = BidFill.qty
       /\ AskFill.qty = Min(OrderTable[a].qty, OrderTable[b].qty)
       /\ OrderTable'[a].qty = OrderTable[a].qty - AskFill.qty
       /\ OrderTable'[b].qty = OrderTable[b].qty - BidFill.qty

\* C4: a match step reports one fill quantity for both orders, it is the
\* smaller of the two remaining quantities, exactly it is taken off each of
\* the two orders; and the quantity filled on the bid side so far equals the
\* quantity filled on the ask side.
C4_Conservation ==
    /\ [][IsMatchStep => C4_StepConserves]_vars
    /\ [](SumFills("BID", Len(events)) = SumFills("ASK", Len(events)))

\* A partial fill has happened: an order was filled in part and still holds
\* a remainder.
C4_Witness ==
    \E n \in 1..Len(events) :
        /\ events[n].kind = "PARTIALLY FILLED"
        /\ events[n].qty > 0
        /\ OrderTable[events[n].id].qty > 0

\* ---------------------------------------------------------------- C5
\* The state right after the intake of a placement, before the worker has
\* looked at it: the opposite side is still as the placement found it.
JustAdmitted(c) ==
    /\ cpc[c] = "place_wait" /\ book_updated /\ wpc = "wait"
    /\ call[c].local_id \in DOMAIN OrderTable

\* A LIMIT BID that found the ask side empty; the end of the walk-through
\* when no order of it was cancelled.
BidOnEmptyAsksKeepsPrice ==
    \A c \in Clients :
        (JustAdmitted(c) /\ call[c].side = "BID" /\ call[c].type = "LIMIT"
         /\ size(AsksBook) = 0)
            => /\ OrderTable[call[c].local_id].price = call[c].price
               /\ InSeq(Level(BidLevels, call[c].price), call[c].local_id)

ScenarioDone ==
    /\ Quiescent
    /\ next_order_id = Len(Scenario) + 1
    /\ \A n \in 1..Len(events) : events[n].kind # "CANCELED"

ScenarioEnd ==
    /\ AsksBook = <<>> /\ NonEmptyKeys(AskLevels) = {}
    /\ BidsBook = <<101>> /\ NonEmptyKeys(BidLevels) = {101}
    /\ Level(BidLevels, 101) = <<4>>
    /\ OrderTable[4].qty = 5 /\ OrderTable[4].status = "OPEN"
    /\ OrderTable[1].status = "FILLED"
    /\ OrderTable[2].status = "FILLED" /\ OrderTable[3].status = "FILLED"
    /\ LET fills == SelectSeq(events, IsFill)
       IN /\ Len(fills) = 4
          /\ \A n \in 1..4 : fills[n].qty = 5
          /\ {fills[1].id, fills[2].id} = {1, 2}
          /\ {fills[3].id, fills[4].id} = {1, 3}

\* C5: a LIMIT BID placed while the ask side is empty rests at its submitted
\* price; and BID(10@100), ASK(5@99), ASK(5@100), BID(5@101) fills 5 between
\* the first ask and the first bid, then 5 between the second ask and the
\* first bid, and ends with the bid side holding exactly the level 101 with
\* quantity 5 and the ask side empty (read under SpecScenario, whose
\* placements are that sequence).
C5_BidOnEmptyAsks ==
    /\ BidOnEmptyAsksKeepsPrice
    /\ ScenarioDone => ScenarioEnd

\* ---------------------------------------------------------------- C6
\* The working price as a function of the submitted price and the opposite
\* side at intake.
WorkingPrice(_side, _price) ==
    IF _side = "BID"
    THEN IF size(AsksBook) # 0 /\ _price > peek(AsksBook) THEN peek(AsksBook) ELSE _price
    ELSE IF size(BidsBook) # 0 /\ _price < peek(BidsBook) THEN peek(BidsBook) ELSE _price

\* C6: the working price of a LIMIT order is the opposite best price when the
\* opposite side is non-empty and the submitted price crosses it, and the
\* submitted price otherwise; the order is filed under its working price.
C6_LimitWorkingPrice ==
    \A c \in Clients :
        (JustAdmitted(c) /\ call[c].type = "LIMIT")
            => LET w == WorkingPrice(call[c].side, call[c].price)
                   levels == IF call[c].side = "BID" THEN BidLevels ELSE AskLevels
               IN /\ OrderTable[call[c].local_id].price = w
                  /\ InSeq(Level(levels, w), call[c].local_id)

\* ---------------------------------------------------------------- C7
\* C7: once place_order has returned for a MARKET order, the order is in no
\* price level of either side and its status is not OPEN.
C7_MarketNeverRests ==
    \A c \in Clients :
        (cpc[c] = "idle" /\ call[c].op = "place_order" /\ call[c].type = "MARKET"
         /\ call[c].ret \in DOMAIN OrderTable)
            => /\ ~InBook(call[c].ret)
               /\ OrderTable[call[c].ret].status # "OPEN"

\* ---------------------------------------------------------------- C8
\* C8: place_order with a quantity that is zero or negative returns 0, admits
\* no order (no registry entry, no book entry) and emits no OPEN event.
C8_NonPositiveQtyRejected ==
    /\ \A c \in Clients :
           (call[c].op = "place_order" /\ call[c].qty <= 0)
               => cpc[c] = "idle" /\ call[c].ret = 0
    /\ \A n \in 1..Len(events) : events[n].kind = "OPEN" => events[n].qty > 0

\* ---------------------------------------------------------------- C9
\* The step from this state to the next is client c entering a call of `op`.
Calls(c, op) ==
    /\ cpc[c] = "idle"
    /\ call'[c].op = op
    /\ call'[c] # call[c] \/ cpc'[c] # cpc[c] \/ next_order_id' # next_order_id
    /\ \A d \in Clients \ {c} : cpc'[d] = cpc[d] /\ call'[d] = call[d]

OppositeEmpty(_side) ==
    IF _side = "BID" THEN size(AsksBook) = 0 ELSE size(BidsBook) = 0

\* C9: place_order of a MARKET order while the opposite side is empty returns
\* 0, emits no event, leaves registry, books and aggressor-of-record alone,
\* does not wake the worker, and changes only the id counter.
C9_MarketOnEmptyOpposite ==
    [][\A c \in Clients :
          (Calls(c, "place_order") /\ call'[c].type = "MARKET"
           /\ OppositeEmpty(call'[c].side))
              => /\ call'[c].ret = 0 /\ cpc'[c] = "idle"
                 /\ next_order_id' = next_order_id + 1
                 /\ UNCHANGED <<book, OrderTable, events, recent_order_id,
                                book_updated, wpc>>]_vars

\* A MARKET order has been turned away from a book whose own side holds
\* orders and whose opposite side is empty.
C9_Witness ==
    \E c \in Clients :
        /\ cpc[c] = "idle" /\ call[c].op = "place_order" /\ call[c].type = "MARKET"
        /\ call[c].ret = 0
        /\ OppositeEmpty(call[c].side)
        /\ ~OppositeEmpty(IF call[c].side = "BID" THEN "ASK" ELSE "BID")
        /\ next_order_id > FirstId + 1

\* ---------------------------------------------------------------- C10
\* C10: cancel_order of an id that is not in the registry (0 included), of an
\* order that is not OPEN, or of a MARKET order returns false and changes
\* nothing; so a second cancel of the same order returns false and leaves
\* the book as it was.
C10_CancelRejects ==
    [][\A c \in Clients :
          (/\ Calls(c, "cancel_order")
           /\ \/ call'[c].id \notin DOMAIN OrderTable
              \/ OrderTable[call'[c].id].status # "OPEN"
              \/ OrderTable[call'[c].id].type = "MARKET")
              => /\ call'[c].ret = 0 /\ cpc'[c] = "idle"
                 /\ UNCHANGED <<book, OrderTable, events, recent_order_id,
                                next_order_id, book_updated, wpc>>]_vars

\* An order was cancelled, a second cancel of it has returned false, and
\* the book still holds orders.
C10_Witness ==
    \E c \in Clients :
        /\ cpc[c] = "idle" /\ call[c].op = "cancel_order" /\ call[c].ret = 0
        /\ call[c].id \in DOMAIN OrderTable
        /\ OrderTable[call[c].id].status = "CANCELLED"
        /\ Resting(AskLevels) \cup Resting(BidLevels) # {}

\* ---------------------------------------------------------------- C11
\* The prices a ladder holds.
Ladder(h) == {h[i] : i \in 1..Len(h)}

\* What an accepted cancel of `id` does under the mutex.
CancelEffect(id) ==
    LET o == OrderTable[id]
        isBid == o.side = "BID"
        levels == IF isBid THEN BidLevels ELSE AskLevels
        levelsN == IF isBid THEN BidLevels' ELSE AskLevels'
        heap == IF isBid THEN BidsBook ELSE AsksBook
        heapN == IF isBid THEN BidsBook' ELSE AsksBook'
        others == SelectSeq(Level(levels, o.price), LAMBDA x : x # id)
    IN /\ id \notin Resting(AskLevels') \cup Resting(BidLevels')
       /\ OrderTable' = [OrderTable EXCEPT ![id].status = "CANCELLED"]
       /\ IF isBid THEN UNCHANGED <<AsksBook, AskLevels>>
                   ELSE UNCHANGED <<BidsBook, BidLevels>>
       /\ \A p \in DOMAIN levels \ {o.price} :
              p \in DOMAIN levelsN /\ levelsN[p] = levels[p]
       /\ IF others # <<>>
          THEN /\ DOMAIN levelsN = DOMAIN levels
               /\ levelsN[o.price] = others
               /\ heapN = heap
          ELSE /\ DOMAIN levelsN = DOMAIN levels \ {o.price}
               /\ Ladder(heapN) = Ladder(heap) \ {o.price}
               /\ Len(heapN) = Cardinality(Ladder(heapN))

\* C11: cancel_order of an OPEN LIMIT order is accepted; it takes the order
\* out of its level and leaves the other orders of the level in their order,
\* sets its status to CANCELLED, keeps its quantity and its registry entry,
\* removes its price from the ladder and the level map exactly when the level
\* became empty, touches no other order; nothing of book or registry changes
\* until the call returns, and it returns true.
C11_CancelAccepted ==
    [][\A c \in Clients :
          /\ (/\ Calls(c, "cancel_order")
              /\ call'[c].id \in DOMAIN OrderTable
              /\ OrderTable[call'[c].id].status = "OPEN"
              /\ OrderTable[call'[c].id].type = "LIMIT")
                 => cpc'[c] = "cancel_wait" /\ CancelEffect(call'[c].id)
          /\ cpc[c] = "cancel_wait"
                 => /\ UNCHANGED <<book, OrderTable>>
                    /\ cpc'[c] = "idle" => call'[c].ret = 1]_vars

\* ---------------------------------------------------------------- C12
\* C12: once an order is cancelled (its CANCELED event carries the quantity
\* it had left) no fill event is emitted for it and its remaining quantity
\* stays what it was, whatever is placed, cancelled or edited afterwards.
C12_CancelledNeverTrades ==
    \A n \in 1..Len(events) :
        events[n].kind = "CANCELED"
            => /\ OrderTable[events[n].id].qty = events[n].qty
               /\ OrderTable[events[n].id].status = "CANCELLED"
               /\ \A m \in (n + 1)..Len(events) :
                      IsFill(events[m]) => events[m].id # events[n].id

\* BID(10@100) was placed and cancelled, ASK(5@99) was placed after it: no
\* fill, and the ask rests with quantity 5 at 99.
C12_Witness ==
    /\ Quiescent
    /\ DOMAIN OrderTable = {1, 2}
    /\ events = <<Event("OPEN", 1, 10, OrderTable[1].price),
                  Event("CANCELED", 1, 10, OrderTable[1].price),
                  Event("OPEN", 2, 5, 99)>>
    /\ OrderTable[1].side = "BID" /\ OrderTable[2].side = "ASK"
    /\ \E c \in Clients : call[c].op = "place_order" /\ call[c].price = 99
    /\ AskLevels = (99 :> <<2>>) /\ OrderTable[2].qty = 5
    /\ NonEmptyKeys(BidLevels) = {}

\* ---------------------------------------------------------------- C13
\* cancel_order(id) would return false.
WouldNotCancel(id) ==
    \/ id \notin DOMAIN OrderTable
    \/ OrderTable[id].status # "OPEN"
    \/ OrderTable[id].type = "MARKET"

\* What holds when an accepted edit_order returns to client c.
EditReturned(c) ==
    LET new == call'[c].ret
        old == call'[c].id
    IN /\ new # 0 /\ new # old
       /\ new \in DOMAIN OrderTable'
       /\ OrderTable'[old].status = "CANCELLED"
       /\ OrderTable'[new].type = "LIMIT"
       /\ OrderTable'[new].side = call'[c].side
       /\ \E n \in 1..Len(events') :
              /\ events'[n].kind = "OPEN" /\ events'[n].id = new
              /\ events'[n].qty = call'[c].qty

\* C13: edit_order returns 0 exactly when cancel_order(id) would return
\* false, and then places nothing, leaves the id counter, the events and the
\* book alone; otherwise it returns a new id other than id, the old order is
\* CANCELLED in the registry and the new order is a LIMIT order of the given
\* side, opened with the given quantity.
C13_EditResult ==
    [][\A c \in Clients :
          /\ (Calls(c, "edit_order") /\ WouldNotCancel(call'[c].id))
                 => /\ call'[c].ret = 0 /\ cpc'[c] = "idle"
                    /\ UNCHANGED <<book, OrderTable, events, next_order_id,
                                   recent_order_id, book_updated, wpc>>
          /\ (Calls(c, "edit_order") /\ ~WouldNotCancel(call'[c].id))
                 => cpc'[c] # "idle"
          /\ (call[c].op = "edit_order" /\ cpc[c] # "idle" /\ cpc'[c] = "idle")
                 => EditReturned(c)]_vars

\* An edit has returned the id of the replacement it placed.
C13_Witness ==
    \E c \in Clients :
        /\ cpc[c] = "idle" /\ call[c].op = "edit_order"
        /\ call[c].ret \in DOMAIN OrderTable
        /\ call[c].id \in DOMAIN OrderTable
        /\ OrderTable[call[c].id].status = "CANCELLED"

\* ---------------------------------------------------------------- C14
\* The three steps a successful edit_order takes besides the worker's own:
\* entering the cancel, leaving it, and placing the replacement.
EditEnters(c) == Calls(c, "edit_order") /\ cpc'[c] = "edit_cancel_wait"
EditLeavesCancel(c) == cpc[c] = "edit_cancel_wait" /\ cpc'[c] # cpc[c]
EditPlaces(c) == cpc[c] = "edit_place" /\ cpc'[c] # cpc[c]

\* The replacement is the last order of the level it was filed in.
ReplacementAtTail(c) ==
    LET new == call'[c].local_id
        levels == IF call'[c].side = "BID" THEN BidLevels' ELSE AskLevels'
        key == OrderTable'[new].price
    IN /\ new = next_order_id
       /\ Level(levels, key) # <<>>
       /\ Level(levels, key)[Len(Level(levels, key))] = new

\* C14: a successful edit_order(id, s, q, p) goes through the states of
\* cancel_order(id) followed by place_order(s, LIMIT, q, p): its first step
\* is the critical section of that cancel taken from the same state, between
\* the two it only waits for the worker as the cancel does, its last step is
\* the critical section of that placement taken from the same state (the
\* caller's own bookkeeping apart), and the replacement goes to the tail of
\* its level.
C14_EditIsCancelThenPlace ==
    [][\A c \in Clients :
          /\ EditEnters(c)
                 => CancelSection(c, call'[c], call'[c].id, cpc'[c])
          /\ EditLeavesCancel(c)
                 => /\ ~book_updated /\ MutexFree
                    /\ cpc'[c] = "edit_place"
                    /\ UNCHANGED <<book, OrderTable, events, recent_order_id,
                                   next_order_id, book_updated, wpc, call>>
          /\ EditPlaces(c)
                 => /\ PlaceSection(c, call[c], call[c].side, "LIMIT",
                                    call[c].qty, call[c].price)
                    /\ cpc'[c] = "place_wait"
                    /\ ReplacementAtTail(c)]_vars

\* An edit has returned after putting its replacement behind an order that
\* was already resting in that level.
C14_Witness ==
    \E c \in Clients :
        /\ cpc[c] = "idle" /\ call[c].op = "edit_order"
        /\ call[c].ret \in DOMAIN OrderTable
        /\ \E levels \in {AskLevels, BidLevels} : \E p \in DOMAIN levels :
               /\ Len(levels[p]) >= 2
               /\ levels[p][Len(levels[p])] = call[c].ret

\* ---------------------------------------------------------------- C15
\* LIMIT orders j and k lie on opposite sides at prices that cross.
CrossingLimits(j, k) ==
    /\ OrderTable[j].type = "LIMIT" /\ OrderTable[k].type = "LIMIT"
    /\ OrderTable[j].side # OrderTable[k].side
    /\ IF OrderTable[j].side = "BID"
       THEN OrderTable[j].price >= OrderTable[k].price
       ELSE OrderTable[k].price >= OrderTable[j].price

\* When every call runs atomically together with its match loop, an order k
\* that is cancelled after a crossing LIMIT order j was opened against it was
\* resting during the pass made for j, so that pass traded: the log has a
\* fill between the OPEN of j and the CANCELED of k.  It is an invariant of
\* Spec, SpecPlace, SpecEdge and SpecScenario, whose single client issues its
\* calls one after another.
PassBeforeNextCall ==
    \A i \in 1..Len(events), m \in 1..Len(events) :
        (/\ i < m
         /\ events[i].kind = "OPEN"
         /\ events[m].kind = "CANCELED"
         /\ events[m].id < events[i].id
         /\ CrossingLimits(events[i].id, events[m].id))
            => \E f \in (i + 1)..(m - 1) : IsFill(events[f])

\* C15: for every interleaving of calls issued by two client threads, the
\* event sequence, the returned values and the final book are those of some
\* sequential execution in which each call runs atomically together with its
\* match loop.
C15_Linearizable == PassBeforeNextCall

\* ---------------------------------------------------------------- C16
\* C16: a place_order call that admitted an order returns only after the
\* worker has made a pass with that order as aggressor-of-record and has
\* cleared work-pending, also with several clients calling at once.
C16_ReturnsAfterOwnPass ==
    [][\A c \in Threads :
          (cpc[c] = "place_wait" /\ cpc'[c] = "idle")
              => call[c].ret = Served /\ ~book_updated]_vars

\* ---------------------------------------------------------------- C17
\* Client c takes the mutex for a call in the step from this state.
EntersSection(c) ==
    cpc[c] = "idle" /\ (call'[c] # call[c] \/ cpc'[c] # cpc[c])

\* C17: whenever a client enters the critical section of place_order or
\* cancel_order, work-pending is false and no other client's order waits for
\* its pass of the worker.
C17_OneAggressorInFlight ==
    [][\A c \in Threads :
          EntersSection(c)
              => /\ ~book_updated
                 /\ \A d \in Threads \ {c} :
                        cpc[d] = "place_wait" => call[d].ret = Served]_vars

\* ---------------------------------------------------------------- C20
\* C20: get_price returns (best_bid + best_ask) / 2 when both sides are
\* non-empty and the seeded starting price in every other case, also when
\* exactly one of the two sides is empty.
C20_GetPrice ==
    get_price = IF size(AsksBook) > 0 /\ size(BidsBook) > 0
                THEN Half(At(BidsBook, 0) + At(AsksBook, 0))
                ELSE Whole(starting_price)

\* ---------------------------------------------------------------- C18
\* C18: under fair scheduling of the worker and of the clients, every
\* place_order and cancel_order call that raised book_updated eventually sees
\* it false and returns, also with two clients calling at once.
C18_CallsReturn ==
    \A c \in Threads :
        (cpc[c] \in {"place_wait", "cancel_wait"}) ~> (cpc[c] = "idle")

\* One client has returned from its placement while the other, whose order
\* came later, has been acknowledged and has not yet resumed.
C18_Witness ==
    \E c \in Threads, d \in Threads :
        /\ c # d
        /\ cpc[c] = "idle" /\ call[c].op = "place_order"
        /\ call[c].ret = call[c].local_id /\ call[c].local_id = FirstId
        /\ cpc[d] = "place_wait" /\ call[d].local_id = FirstId + 1
        /\ ~book_updated

\* ---------------------------------------------------------------- C19
\* C19: destroyed with no client call in progress, the engine shuts down in
\* every interleaving of the destructor with the worker: the worker exits,
\* the destructor's wait is released, the destructor joins and returns.
C19_ShutdownTerminates ==
    \A c \in Clients : (cpc[c] = "destroy_wait") ~> (cpc[c] = "destroyed")

\* ---------------------------------------------------------------- C21
\* The OPEN orders resting in the levels of a side, and their working prices.
RestingOpen(levels) == {id \in Resting(levels) : OrderTable[id].status = "OPEN"}

WorkingPrices(ids) == {OrderTable[id].price : id \in ids}

Highest(S) == CHOOSE x \in S : \A y \in S : y <= x

Lowest(S) == CHOOSE x \in S : \A y \in S : x <= y

\* C21: in every quiescent state get_best_bid returns -1 if no OPEN bid
\* rests in the book and otherwise the highest working price among the
\* resting OPEN bids; get_best_ask returns -1 if no OPEN ask rests and
\* otherwise the lowest working price among the resting OPEN asks.
C21_BestPrices ==
    Quiescent =>
        /\ get_best_bid = IF RestingOpen(BidLevels) = {} THEN NoPrice
                          ELSE Highest(WorkingPrices(RestingOpen(BidLevels)))
        /\ get_best_ask = IF RestingOpen(AskLevels) = {} THEN NoPrice
                          ELSE Lowest(WorkingPrices(RestingOpen(AskLevels)))

\* ---------------------------------------------------------------- C22
\* Thread c's place_order admits an order in the step from this state.
Admits(c) == cpc[c] = "idle" /\ cpc'[c] = "place_wait"

\* Thread c's place_order is rejected in the step from this state.
Rejects(c) ==
    /\ cpc[c] = "idle" /\ cpc'[c] = "idle"
    /\ call'[c] # call[c] /\ call'[c].op = "place_order"

\* C22: order ids are unique and strictly increasing in order of admission,
\* also under concurrent place_order calls: the first id issued is 1, an
\* admitted order gets an id greater than every id issued before it, no
\* record is overwritten, and 0 is never an order's id but only the value a
\* rejected placement returns.
C22_IdsIncrease ==
    [][\A c \in Threads :
          /\ Admits(c) =>
                LET _id == call'[c].local_id
                IN /\ _id # 0
                   /\ _id = next_order_id /\ next_order_id' > _id
                   /\ \A k \in DOMAIN OrderTable : k < _id
                   /\ \A e \in 1..Len(events) : events[e].id < _id
                   /\ DOMAIN OrderTable' = DOMAIN OrderTable \cup {_id}
                   /\ \A k \in DOMAIN OrderTable : OrderTable'[k] = OrderTable[k]
                   /\ (OrderTable = EmptyMap /\ events = <<>> /\ call = [d \in Threads |-> NoCall])
                          => _id = 1
          /\ Rejects(c) =>
                /\ call'[c].ret = 0
                /\ next_order_id' > next_order_id
                /\ OrderTable' = OrderTable
          /\ 0 \notin DOMAIN OrderTable']_vars

\* Both threads are inside place_order at once, holding ids 1 and 2.
C22_Witness ==
    /\ \A c \in Threads : cpc[c] = "place_wait"
    /\ {call[c].local_id : c \in Threads} = {1, 2}
    /\ DOMAIN OrderTable = {1, 2}

\* ---------------------------------------------------------------- C23
\* The ids of the orders notify_open has announced so far.
Opened == {events[i].id : i \in {n \in 1..Len(events) : events[n].kind = "OPEN"}}

\* The non-zero ids place_order has returned to a client that is idle again.
Returned ==
    {call[c].ret : c \in {d \in Clients : cpc[d] = "idle" /\ call[d].op = "place_order"}} \ {0, Pending}

\* C23: the registry is append-only: get_order of every id place_order has
\* admitted or returned gives that order's record in every later state,
\* whether OPEN, FILLED or CANCELLED, and get_order of an id never returned
\* (0, an id consumed by a rejected placement, an id not yet issued) gives
\* none.
C23_RegistryAppendOnly ==
    /\ \A i \in 1..Len(events) :
          events[i].kind = "OPEN" =>
              /\ get_order(events[i].id) # nullptr
              /\ get_order(events[i].id).price = events[i].price
              /\ get_order(events[i].id).status \in {"OPEN", "FILLED", "CANCELLED"}
    /\ \A _id \in Returned : get_order(_id) # nullptr
    /\ \A _id \in 0..(next_order_id + 1) : _id \notin Opened => get_order(_id) = nullptr

\* Id 1 went to a rejected placement; orders 2 and 3 have traded and order 2
\* has then been cancelled; all is still answered from the registry.
C23_Witness ==
    /\ Quiescent
    /\ next_order_id = 4
    /\ get_order(1) = nullptr
    /\ DOMAIN OrderTable = {2, 3}
    /\ get_order(2).status = "CANCELLED"
    /\ get_order(3).status = "FILLED"

\* ---------------------------------------------------------------- C24
\* The prices a heap holds.
HeapPrices(h) == {h[i] : i \in 1..Len(h)}

\* Every price of heap h has a non-empty level in levels, all of whose orders
\* have the given side, status OPEN and that price as working price.
LevelsWellFormed(h, levels, _side) ==
    \A p \in HeapPrices(h) :
        /\ HasLevel(levels, p)
        /\ levels[p] # <<>>
        /\ \A i \in 1..Len(levels[p]) :
              /\ OrderTable[levels[p][i]].side = _side
              /\ OrderTable[levels[p][i]].status = "OPEN"
              /\ OrderTable[levels[p][i]].price = p

\* C24: in every quiescent state, for every price registered on a side the
\* level at that price is non-empty and every order in it has that side,
\* status OPEN and working price equal to the level's price, in books with
\* LIMIT and MARKET orders.
C24_LevelInvariant ==
    Quiescent =>
        /\ LevelsWellFormed(AsksBook, AskLevels, "ASK")
        /\ LevelsWellFormed(BidsBook, BidLevels, "BID")

\* ---------------------------------------------------------------- C25
\* Heap h and level map levels agree: same prices, each once in the heap,
\* no empty level.
LadderAgrees(h, levels) ==
    /\ HeapPrices(h) = DOMAIN levels
    /\ \A i, j \in 1..Len(h) : h[i] = h[j] => i = j
    /\ \A p \in DOMAIN levels : levels[p] # <<>>

\* C25: in every quiescent state, on each side the prices in the price heap
\* are the keys of the level map, each price is in the heap exactly once and
\* no level of the map is empty.
C25_LadderLevelAgreement ==
    Quiescent => LadderAgrees(AsksBook, AskLevels) /\ LadderAgrees(BidsBook, BidLevels)

\* ---------------------------------------------------------------- C26
\* The places (price, position) at which levels holds order id.
Places_Of(id, levels) ==
    {pos \in {<<p, i>> : p \in DOMAIN levels, i \in 1..MaxDeep + 1} :
        pos[2] <= Len(levels[pos[1]]) /\ levels[pos[1]][pos[2]] = id}

\* C26: in every quiescent state every OPEN order of the registry is held by
\* exactly one level, of its own side, exactly once, and a FILLED or
\* CANCELLED order is held by no level of either side.
C26_OpenIffResting ==
    Quiescent =>
        \A id \in DOMAIN OrderTable :
            LET own   == IF OrderTable[id].side = "ASK" THEN AskLevels ELSE BidLevels
                other == IF OrderTable[id].side = "ASK" THEN BidLevels ELSE AskLevels
            IN IF OrderTable[id].status = "OPEN"
               THEN Cardinality(Places_Of(id, own)) = 1 /\ Places_Of(id, other) = {}
               ELSE Places_Of(id, own) = {} /\ Places_Of(id, other) = {}

\* ---------------------------------------------------------------- C27
RECURSIVE SumQty(_)
SumQty(q) == IF q = <<>> THEN 0 ELSE OrderTable[Head(q)].qty + SumQty(Tail(q))

RECURSIVE SumLevels(_, _)
SumLevels(levels, keys) ==
    IF keys = {} THEN 0
    ELSE LET p == CHOOSE k \in keys : TRUE
         IN SumQty(levels[p]) + SumLevels(levels, keys \ {p})

RECURSIVE SumOpen(_)
SumOpen(ids) ==
    IF ids = {} THEN 0
    ELSE LET id == CHOOSE k \in ids : TRUE
         IN (IF OrderTable[id].status = "OPEN" THEN OrderTable[id].qty ELSE 0)
            + SumOpen(ids \ {id})

\* C27: in every quiescent state the remaining quantities of the OPEN orders
\* of the registry add up to the remaining quantities of the orders held in
\* the levels of both sides.
C27_RestingVolume ==
    Quiescent =>
        SumOpen(DOMAIN OrderTable)
            = SumLevels(AskLevels, DOMAIN AskLevels) + SumLevels(BidLevels, DOMAIN BidLevels)

\* ---------------------------------------------------------------- C28
\* The quantity order id was placed with, as notify_open announced it.
PlacedQty(id) ==
    LET n == CHOOSE i \in 1..Len(events) : events[i].kind = "OPEN" /\ events[i].id = id
    IN events[n].qty

\* C28: in every reachable state the remaining quantity q of every order
\* satisfies 0 <= q <= the quantity it was placed with, q never increases,
\* and an order resting in a level with status OPEN has q > 0.
C28_QuantityBounds ==
    [][\A id \in DOMAIN OrderTable' :
          /\ 0 <= OrderTable'[id].qty
          /\ OrderTable'[id].qty <= PlacedQty(id)'
          /\ id \in DOMAIN OrderTable => OrderTable'[id].qty <= OrderTable[id].qty
          /\ (InBook(id)' /\ OrderTable'[id].status = "OPEN") => OrderTable'[id].qty > 0]_vars

\* ---------------------------------------------------------------- C29
\* Order id, just admitted on _side, has working price `best` and lies at the
\* tail of the level of its side keyed by `best`, which is the head of the
\* best level of that side.
FiledAt(id, _side, best) ==
    LET heap   == IF _side = "ASK" THEN AsksBook' ELSE BidsBook'
        levels == IF _side = "ASK" THEN AskLevels' ELSE BidLevels'
    IN /\ OrderTable'[id].price = best
       /\ best \in HeapPrices(heap)
       /\ Level(levels, best) # <<>>
       /\ Level(levels, best)[Len(Level(levels, best))] = id
       /\ Level(levels, peek(heap)) # <<>>
       /\ Head(Level(levels, peek(heap))) = id

\* C29: an admitted MARKET order gets the opposite side's best price at
\* intake as working price and is appended to the level of its own side
\* keyed by exactly that price, whatever price argument was passed; it is
\* thereby the head of the best level of its side when the match loop starts.
C29_MarketFiledAtBest ==
    [][\A c \in Clients :
          (Admits(c) /\ call'[c].type = "MARKET")
              => FiledAt(call'[c].local_id, call'[c].side,
                         IF call'[c].side = "BID" THEN peek(AsksBook) ELSE peek(BidsBook))]_vars

\* ---------------------------------------------------------------- C30
\* Client c waits for the pass of its LIMIT order, whose submitted price
\* crossed the opposite best price and was clamped to it (lines 113-116).
Marketable(c) ==
    /\ cpc[c] = "place_wait"
    /\ call[c].type = "LIMIT"
    /\ call[c].local_id = recent_order_id
    /\ OrderTable[recent_order_id].price # NoPrice
    /\ IF call[c].side = "BID"
       THEN call[c].price > OrderTable[recent_order_id].price
       ELSE call[c].price < OrderTable[recent_order_id].price

\* The match step from this state fills order id at price p against an
\* order of the opposite level at p.
TradesAt(id, _side, p) ==
    LET own      == IF _side = "BID" THEN BidFill ELSE AskFill
        other    == IF _side = "BID" THEN AskFill ELSE BidFill
        opposite == IF _side = "BID" THEN AskLevels ELSE BidLevels
    IN /\ own.id = id /\ own.price = p
       /\ other.price = p
       /\ InSeq(Level(opposite, p), other.id)

\* Whatever is left of order id rests in the level at p of its side and in
\* no other level.
ResidualAt(id, _side, p) ==
    LET levels == IF _side = "BID" THEN BidLevels' ELSE AskLevels'
    IN (OrderTable'[id].status = "OPEN" /\ OrderTable'[id].qty > 0)
          => /\ InSeq(Level(levels, p), id)
             /\ \A k \in DOMAIN levels : InSeq(levels[k], id) => k = p
             /\ id \notin Resting(IF _side = "BID" THEN AskLevels' ELSE BidLevels')

\* C30: a marketable LIMIT order trades only at the pre-placement opposite
\* best price: every fill it receives is against the opposite level at that
\* price, and what is left of it rests on its own side at that price, never
\* beyond it, even if the submitted limit also crosses the next level.
C30_MarketableLimit ==
    [][\A c \in Clients :
          Marketable(c) =>
              LET id == recent_order_id
                  p  == OrderTable[recent_order_id].price
              IN /\ IsMatchStep => TradesAt(id, call[c].side, p)
                 /\ (book_updated /\ ~book_updated') => ResidualAt(id, call[c].side, p)]_vars

\* ---------------------------------------------------------------- C31
\* The level map with order id taken out of whatever level holds it, a level
\* emptied by that being dropped.
TakenOut(levels, id) ==
    LET kept == {p \in DOMAIN levels : Without(levels[p], id) # <<>>}
    IN [p \in kept |-> Without(levels[p], id)]

\* What a match step owes the order e.id of its fill event e on the side
\* with heap h and level map levels (h1, levels1 after the step).
FillOutcome(e, h, levels, h1, levels1) ==
    IF OrderTable'[e.id].qty = 0
    THEN /\ e.kind = "FILLED"
         /\ OrderTable'[e.id].status = "FILLED"
         /\ levels1 = TakenOut(levels, e.id)
         /\ HeapPrices(h1) = DOMAIN levels1
    ELSE /\ e.kind = "PARTIALLY FILLED"
         /\ OrderTable'[e.id].status = "OPEN"
         /\ levels1 = levels
         /\ h1 = h

\* C31: in each match step, an order whose remaining quantity reaches 0 gets
\* a FILL event, becomes FILLED, and it and no other order leaves its level
\* (an emptied level leaving ladder and map); an order with quantity left
\* gets a PARTIAL_FILL event, stays OPEN and stays in its level; no other
\* order changes quantity, status or position.
C31_MatchStepOutcome ==
    [][IsMatchStep =>
          /\ FillOutcome(AskFill, AsksBook, AskLevels, AsksBook', AskLevels')
          /\ FillOutcome(BidFill, BidsBook, BidLevels, BidsBook', BidLevels')
          /\ \A id \in DOMAIN OrderTable \ {AskFill.id, BidFill.id} :
                OrderTable'[id] = OrderTable[id]]_vars

\* ---------------------------------------------------------------- C32
\* The positions of the log that carry order id.
EventsOf(id) == {n \in 1..Len(events) : events[n].id = id}

Terminal(e) == e.kind \in {"FILLED", "CANCELED"}

\* C32: for every admitted order the events carrying its id are, in emission
\* order, exactly one OPEN, then zero or more PARTIAL_FILL, then at most one
\* terminal event (FILL or CANCEL) and nothing after it; a rejected placement
\* emits no OPEN.
C32_PerOrderEventOrder ==
    /\ \A id \in DOMAIN OrderTable :
          /\ EventsOf(id) # {}
          /\ \A n \in EventsOf(id) :
                /\ events[n].kind = "OPEN" <=> (\A m \in EventsOf(id) : n <= m)
                /\ Terminal(events[n]) => (\A m \in EventsOf(id) : m <= n)
                /\ events[n].kind \in {"OPEN", "PARTIALLY FILLED", "FILLED", "CANCELED"}
    /\ \A n \in 1..Len(events) : events[n].id \in DOMAIN OrderTable

\* ---------------------------------------------------------------- C33
\* The worker is in an iteration of the match loop that reaches the crossing
\* test of lines 344-349.
AtCrossingTest == wpc = "loop" /\ LoopCondition /\ BestLevelsFound

\* The book-level test: the best bid's price reaches the best ask's.
BookCrossed == OrderTable[BestBid].price >= OrderTable[BestAsk].price

\* C33: at every iteration of the match loop the crossing test taken from
\* the aggressor's view has the same truth value as the book-level test
\* best_bid.price >= best_ask.price, so that the loop stops for 'no cross'
\* only when the book is uncrossed.
C33_CrossingTestsAgree == AtCrossingTest => (CanTrade <=> BookCrossed)

\* ---------------------------------------------------------------- C34
\* The best of a non-empty set of prices for the heap of _side.
BestOf(_side, S) ==
    IF _side = "ASK" THEN CHOOSE x \in S : \A y \in S : x <= y
    ELSE CHOOSE x \in S : \A y \in S : y <= x

\* peek() of heap h of _side gives the best stored price, -1 on an empty
\* heap, where find() gives -1 too.
PeekIsBest(_side, h) ==
    IF Len(h) = 0
    THEN peek(h) = -1 /\ \A p \in HeapValues : find(h, p) = -1
    ELSE peek(h) = BestOf(_side, {h[i] : i \in 1..Len(h)})

\* The prices heap h1 must hold after operation op on price p from heap h.
StoredAfter(_side, op, p, h) ==
    LET S == {h[i] : i \in 1..Len(h)}
    IN IF op = "push" THEN S \cup {p}
       ELSE IF op = "pop" THEN S \ {BestOf(_side, S)}
       ELSE S \ {p}

\* C34: after any sequence of push(p) with distinct prices, pop() and
\* pop(find(p)) of a stored price, peek() returns the minimum stored price
\* on the ask heap and the maximum on the bid heap, the stored prices are
\* the pushed ones minus the removed ones, and peek() and find() on an empty
\* heap return -1.
C34_HeapKeepsBest ==
    [][\A c \in Clients :
          (call'[c] # call[c] \/ AsksBook' # AsksBook \/ BidsBook' # BidsBook) =>
              LET _side == call'[c].side
                  h     == IF _side = "ASK" THEN AsksBook ELSE BidsBook
                  h1    == IF _side = "ASK" THEN AsksBook' ELSE BidsBook'
              IN /\ PeekIsBest(_side, h1)
                 /\ {h1[i] : i \in 1..Len(h1)} = StoredAfter(_side, call'[c].op, call'[c].price, h)
                 /\ Len(h1) = Cardinality(StoredAfter(_side, call'[c].op, call'[c].price, h))]_vars

\* ---------------------------------------------------------------- C35
\* C35: every access to the engine's mutable state is serialized by the
\* mutex: no read by get_order, get_price, get_best_bid, get_best_ask or
\* get_orders_by_status happens while the worker is inside the match loop or
\* a client is inside a critical section.
C35_ReadsSerialized ==
    [][\A c \in Threads :
          (call'[c] # call[c] /\ call'[c].op \in Getters) => wpc # "loop"]_vars

\* ---------------------------------------------------------------- C36
\* Every call of every thread has returned and the worker sleeps with
\* nothing pending.
QuiescentTwo ==
    /\ wpc = "wait"
    /\ ~book_updated
    /\ \A c \in Threads : cpc[c] = "idle"

\* C36: with two client threads issuing only LIMIT placements of positive
\* quantity, in every state where all calls have returned and the worker is
\* idle, best_bid < best_ask whenever both sides are non-empty.
C36_NoCrossLeftResting ==
    (QuiescentTwo /\ size(AsksBook) # 0 /\ size(BidsBook) # 0)
        => get_best_bid < get_best_ask

\* ---------------------------------------------------------------- C37
\* A cancel_order call has emitted its CANCELED event and has not returned.
CancelPending == \E c \in Clients : cpc[c] \in {"cancel_wait", "edit_cancel_wait"}

\* C37: between the CANCELED event of a cancel_order call and that call's
\* return no fill event is emitted and no order's remaining quantity changes:
\* the worker wake triggered by the cancel never trades (sequential clients).
C37_CancelWakeNoTrade ==
    [][CancelPending =>
          /\ \A i \in (Len(events) + 1)..Len(events') : ~IsFill(events'[i])
          /\ \A id \in DOMAIN OrderTable : OrderTable'[id].qty = OrderTable[id].qty]_vars

\* ---------------------------------------------------------------- C38
\* The step is the critical section of a cancel_order call on order id.
CancelledBy(id) ==
    /\ Len(events') = Len(events) + 1
    /\ events'[Len(events')].kind = "CANCELED"
    /\ events'[Len(events')].id = id

\* What one step may do to the record of a registered order.
RecordStep(id) ==
    LET o == OrderTable[id]
        o1 == OrderTable'[id]
    IN /\ o1.side = o.side
       /\ o1.type = o.type
       /\ o.status # "OPEN" => o1 = o
       /\ o1.status # o.status =>
             \/ o1.status = "FILLED" /\ wpc = "loop" /\ o1.qty = 0
             \/ o1.status = "CANCELLED" /\ CancelledBy(id)
       /\ (o.status = "OPEN" /\ o1.qty # o.qty /\ o1.qty = 0) => o1.status = "FILLED"

\* C38: order status is monotone: the only transitions are OPEN -> FILLED,
\* made by the worker exactly when the remaining quantity reaches 0, and
\* OPEN -> CANCELLED, made by cancel_order; a FILLED or CANCELLED order's
\* status, remaining quantity and working price never change again, and an
\* order's side and type never change (its id is its key in the registry).
C38_StatusMonotone == [][\A id \in DOMAIN OrderTable : RecordStep(id)]_vars

\* ---------------------------------------------------------------- C39
\* The head of the best level of a side is taken out by the step.
HeadRemoved(heap, levels, levels1) ==
    LET best == peek(heap) IN
    /\ HasLevel(levels, best)
    /\ levels[best] # <<>>
    /\ IF HasLevel(levels1, best)
       THEN levels1[best] = Tail(levels[best])
       ELSE Len(levels[best]) = 1

IterationRemovesHead ==
    IsMatchStep => \/ HeadRemoved(AsksBook, AskLevels, AskLevels')
                   \/ HeadRemoved(BidsBook, BidLevels, BidLevels')

\* The worker is in its loop and a side of the book, or a best level, is
\* missing.
NothingToMatch ==
    \/ size(AsksBook) = 0
    \/ size(BidsBook) = 0
    \/ ~HasLevel(AskLevels, peek(AsksBook))
    \/ ~HasLevel(BidLevels, peek(BidsBook))
    \/ AskLevels[peek(AsksBook)] = <<>>
    \/ BidLevels[peek(BidsBook)] = <<>>

SilentExit ==
    (wpc = "loop" /\ NothingToMatch) =>
        /\ wpc' = "wait"
        /\ ~book_updated'
        /\ events' = events
        /\ book' = book
        /\ OrderTable' = OrderTable

====
